---- MODULE Spec2Model ----
(***************************************************************************)
(* Region values of the NLL region inference                               *)
(* (src/librustc_mir/borrow_check/nll/region_infer/values.rs).             *)
(*                                                                         *)
(* RegionValueElements maps universal regions and control-flow points to   *)
(* one dense index range; RegionValues keeps one bit-set row of such       *)
(* indices per region variable.  Basic blocks, region variables and        *)
(* element indices are naturals counted from 0, as in the source; a MIR    *)
(* body is represented by the sequence of its blocks' statement counts     *)
(* (block b is entry b + 1 of the sequence).                               *)
(***************************************************************************)
EXTENDS Integers, Sequences, FiniteSets, TLC

\* Bounds of the index-space specification (SpecElements).
MaxBlocks == 3
MaxStmts == 3
\* Bounds shared by both specifications.
MaxUniversal == 2
\* Bounds of the store specification (Spec).
MaxPoints == 3
MaxRegionVars == 2
MaxBits == 3

VARIABLES
    mir,                    \* statement count of every basic block
    elements,               \* the RegionValueElements built from mir
    num_region_variables,   \* number of rows of the store
    matrix,                 \* RegionValues.matrix: row -> set of element indices
    last,                   \* the last call made: its name, arguments, result
    panicked                \* a contract check or bounds check aborted the analysis

vars == <<mir, elements, num_region_variables, matrix, last, panicked>>

----------------------------------------------------------------------------
\* Option<T>
None == [tag |-> "None"]
Some(x) == [tag |-> "Some", val |-> x]
is_some(o) == o.tag = "Some"
unwrap(o) == o.val

\* RegionElement, and the three types that implement ToElementIndex
Location(b, s) == [tag |-> "Location", block |-> b, statement_index |-> s]
UniversalRegion(v) == [tag |-> "UniversalRegion", vid |-> v]
RegionVid(v) == [tag |-> "RegionVid", vid |-> v]
RegionElementIndex(i) == [tag |-> "RegionElementIndex", i |-> i]
\* the value of a call that did not return (unwrap of None, failed assert,
\* out-of-bounds IndexVec access)
Panic == [tag |-> "Panic"]

----------------------------------------------------------------------------
\* RegionValueElements

\* points of one block: one per statement plus the terminator
PointsInBlockNoTerminator(len) == len
PointsInBlock(len) == len + 1

\* the closure of RegionValueElements::new, folded over the blocks in order:
\* each block records the running num_points, then adds its own points
RECURSIVE NewLoop(_, _, _, _)
NewLoop(stmts, b, num_points, acc) ==
    IF b > Len(stmts)
    THEN [statements_before_block |-> acc, num_points |-> num_points]
    ELSE NewLoop(stmts, b + 1, num_points + PointsInBlock(stmts[b]),
                 Append(acc, num_points))

New(stmts, num_universal_regions) ==
    LET r == NewLoop(stmts, 1, 0, <<>>)
    IN  [statements_before_block |-> r.statements_before_block,
         num_universal_regions |-> num_universal_regions,
         num_points |-> r.num_points]

num_elements(els) == els.num_points + els.num_universal_regions

to_universal_region_inclusive(els, i) ==
    IF i <= els.num_universal_regions THEN Some(i) ELSE None
to_universal_region(els, i) ==
    IF i < els.num_universal_regions THEN Some(i) ELSE None

\* Iterator::last / the first item, of the blocks that passed the filter
\* (iter_enumerated yields blocks in increasing order)
first_of(blocks) ==
    IF blocks = {} THEN None
    ELSE Some(CHOOSE b \in blocks : \A c \in blocks : b <= c)
last_of(blocks) ==
    IF blocks = {} THEN None
    ELSE Some(CHOOSE b \in blocks : \A c \in blocks : c <= b)

to_element(els, i) ==
    IF is_some(to_universal_region(els, i))
    THEN UniversalRegion(unwrap(to_universal_region(els, i)))
    ELSE LET point_index == i - els.num_universal_regions
             sbb == els.statements_before_block
             found == last_of({b \in 0..(Len(sbb) - 1) : sbb[b + 1] <= point_index})
         IN  IF ~is_some(found) THEN Panic
             ELSE Location(unwrap(found), point_index - sbb[unwrap(found) + 1])

\* ToElementIndex::to_element_index for Location, RegionVid, RegionElementIndex
index(els, elem) ==
    CASE elem.tag = "Location" ->
            IF elem.block >= Len(els.statements_before_block)
            THEN Panic
            ELSE RegionElementIndex(els.num_universal_regions
                                    + els.statements_before_block[elem.block + 1]
                                    + elem.statement_index)
      [] elem.tag = "RegionVid" ->
            IF elem.vid < els.num_universal_regions
            THEN RegionElementIndex(elem.vid)
            ELSE Panic
      [] elem.tag = "RegionElementIndex" -> elem

----------------------------------------------------------------------------
\* SparseBitMatrix<N, RegionElementIndex> (rustc_data_structures::bitvec):
\* the collaborator's contract, rows of column sets

MatrixNew(rows) == [r \in 0..(rows - 1) |-> {}]

MatrixAdd(m, row, column) ==
    [m |-> [m EXCEPT ![row] = @ \cup {column}], changed |-> column \notin m[row]]

MatrixMerge(m, read, write) ==
    [m |-> [m EXCEPT ![write] = @ \cup m[read]],
     changed |-> ~(m[read] \subseteq m[write])]

MatrixContains(m, row, column) == column \in m[row]

\* iterate(row): the set columns in ascending order
RECURSIVE Ascending(_)
Ascending(S) ==
    IF S = {} THEN <<>>
    ELSE LET lo == CHOOSE x \in S : \A y \in S : x <= y
         IN  <<lo>> \o Ascending(S \ {lo})

MatrixIter(m, row) == Ascending(m[row])

----------------------------------------------------------------------------
\* iterator adaptors used by RegionValues

Reverse(s) == [k \in 1..Len(s) |-> s[Len(s) + 1 - k]]

\* skip_while / take_while over the sequence s, where holds[k] is the value of
\* the closure on s[k]: the adaptor stops at the first item the closure rejects
first_rejected(holds) ==
    IF \A k \in 1..Len(holds) : holds[k] THEN Len(holds) + 1
    ELSE CHOOSE k \in 1..Len(holds) :
            ~holds[k] /\ \A j \in 1..(k - 1) : holds[j]

skip_while(s, holds) == SubSeq(s, first_rejected(holds), Len(s))

take_while(s, holds) == SubSeq(s, 1, first_rejected(holds) - 1)

----------------------------------------------------------------------------
\* RegionValues

\* a call's outcome: the matrix after it, its return value, whether it aborted
Outcome(m, ret, panic) == [m |-> m, ret |-> ret, panic |-> panic]

add_element(els, m, r, elem) ==
    LET i == index(els, elem)
    IN  IF i.tag = "Panic" THEN Outcome(m, FALSE, TRUE)
        ELSE LET a == MatrixAdd(m, r, i.i) IN Outcome(a.m, a.changed, FALSE)

add_region_overwrite(m, r_to, r_from) ==
    Outcome([m EXCEPT ![r_to] = m[r_from]], m[r_to] # m[r_from], FALSE)
add_region_swapped(m, r_to, r_from) ==
    LET a == MatrixMerge(m, r_to, r_from) IN Outcome(a.m, a.changed, FALSE)
add_region(m, r_to, r_from) ==
    LET a == MatrixMerge(m, r_from, r_to) IN Outcome(a.m, a.changed, FALSE)

contains(els, m, r, elem) ==
    LET i == index(els, elem)
    IN  IF i.tag = "Panic" THEN Outcome(m, FALSE, TRUE)
        ELSE Outcome(m, MatrixContains(m, r, i.i), FALSE)

element_indices_contained_in_rev(m, r) == Reverse(MatrixIter(m, r))
element_indices_contained_in(m, r) == MatrixIter(m, r)

contains_points_no_skip(els, m, sup_region, sub_region) ==
    LET it == element_indices_contained_in(m, sub_region)
    IN  \A k \in 1..Len(it) :
            contains(els, m, sup_region, RegionElementIndex(it[k])).ret
contains_points(els, m, sup_region, sub_region) ==
    LET it == element_indices_contained_in(m, sub_region)
        is_universal == [k \in 1..Len(it) |->
                            is_some(to_universal_region(els, it[k]))]
        rest == skip_while(it, is_universal)
    IN  \A k \in 1..Len(rest) :
            contains(els, m, sup_region, RegionElementIndex(rest[k])).ret

universal_regions_outlived_by(els, m, r) ==
    LET it == element_indices_contained_in(m, r)
        mapped == [k \in 1..Len(it) |-> to_universal_region(els, it[k])]
        prefix == take_while(mapped, [k \in 1..Len(mapped) |-> is_some(mapped[k])])
    IN  [k \in 1..Len(prefix) |-> unwrap(prefix[k])]

elements_contained_in(els, m, r) ==
    LET it == element_indices_contained_in(m, r)
    IN  [k \in 1..Len(it) |-> to_element(els, it[k])]

----------------------------------------------------------------------------
\* RegionValues::region_value_str

\* The pieces of the rendered string, in order.  A formatted value is kept as
\* the value and the format applied to it.
Str(text) == [kind |-> "str", text |-> text]
DebugRegionVid(fr) == [kind |-> "{:?} RegionVid", vid |-> fr]
DebugLocation(l) ==
    [kind |-> "{:?} Location", block |-> l.block, statement_index |-> l.statement_index]
DebugRange(block, first, final) ==
    [kind |-> "{:?}[{}..={}]", block |-> block, first |-> first, final |-> final]

\* String::push_str: the empty string adds nothing
push_str(result, piece) ==
    IF piece = Str("") THEN result ELSE Append(result, piece)

\* the state of the loop: the string so far, open_location, sep, and whether
\* `l.statement_index - 1` was evaluated at 0 or an assertion failed
push_sep(st) ==
    [st EXCEPT !.result = push_str(@, Str(st.sep)), !.sep = ", "]

push_location_range_always_range(st, location1, location2) ==
    IF location1.block # location2.block
    THEN [st EXCEPT !.panic = TRUE]
    ELSE [st EXCEPT !.result =
            push_str(@, DebugRange(location1.block, location1.statement_index,
                                   location2.statement_index))]
push_location_range(st, location1, location2) ==
    IF location1 = location2
    THEN [st EXCEPT !.result = push_str(@, DebugLocation(location1))]
    ELSE IF location1.block # location2.block
         THEN [st EXCEPT !.panic = TRUE]
         ELSE [st EXCEPT !.result =
                 push_str(@, DebugRange(location1.block, location1.statement_index,
                                        location2.statement_index))]

\* `location2.block == l.block && location2.statement_index == l.statement_index - 1`:
\* && evaluates the subtraction only when the blocks are equal.  At
\* l.statement_index = 0 the usize subtraction overflows: a build with overflow
\* checks aborts there, one without wraps to usize::MAX, which no statement
\* index equals; `underflow` records that it happened.
is_successor_unguarded(location2, l) ==
    IF l.statement_index = 0
    THEN [holds |-> FALSE, underflow |-> TRUE]
    ELSE [holds |-> location2.statement_index = l.statement_index - 1,
          underflow |-> FALSE]
is_successor(location2, l) ==
    IF location2.block # l.block
    THEN [holds |-> FALSE, underflow |-> FALSE]
    ELSE IF l.statement_index = 0
         THEN [holds |-> FALSE, underflow |-> TRUE]
         ELSE [holds |-> location2.statement_index = l.statement_index - 1,
               underflow |-> FALSE]

\* the match arm RegionElement::Location(l)
location_arm(st, l) ==
    IF is_some(st.open_location)
    THEN LET location1 == unwrap(st.open_location)[1]
             location2 == unwrap(st.open_location)[2]
             succ == is_successor(location2, l)
             seen == [st EXCEPT !.underflow = @ \/ succ.underflow]
         IN  IF succ.holds
             THEN [seen EXCEPT !.open_location = Some(<<location1, l>>)]
             ELSE [push_location_range(push_sep(seen), location1, location2)
                     EXCEPT !.open_location = Some(<<l, l>>)]
    ELSE [st EXCEPT !.open_location = Some(<<l, l>>)]

\* the match arm RegionElement::UniversalRegion(fr)
universal_region_arm(st, fr) ==
    LET flushed ==
            IF is_some(st.open_location)
            THEN [push_location_range(push_sep(st), unwrap(st.open_location)[1],
                                      unwrap(st.open_location)[2])
                    EXCEPT !.open_location = None]
            ELSE st
        separated == push_sep(flushed)
    IN  [separated EXCEPT !.result = push_str(@, DebugRegionVid(fr))]

\* the for loop over elements_contained_in(r), from item k on
RECURSIVE region_value_loop(_, _, _)
region_value_loop(st, elems, k) ==
    IF k > Len(elems) \/ st.panic THEN st
    ELSE LET element == elems[k]
             next == CASE element.tag = "Location" -> location_arm(st, element)
                       [] element.tag = "UniversalRegion" ->
                            universal_region_arm(st, element.vid)
                       [] element.tag = "Panic" -> [st EXCEPT !.panic = TRUE]
         IN  region_value_loop(next, elems, k + 1)

region_value_str(els, m, r) ==
    LET start == [result |-> <<Str("{")>>, open_location |-> None, sep |-> "",
                  underflow |-> FALSE, panic |-> FALSE]
        looped == region_value_loop(start, elements_contained_in(els, m, r), 1)
        flushed ==
            IF is_some(looped.open_location) /\ ~looped.panic
            THEN push_location_range(push_sep(looped), unwrap(looped.open_location)[1],
                                     unwrap(looped.open_location)[2])
            ELSE looped
    IN  [result |-> IF flushed.panic THEN flushed.result
                    ELSE push_str(flushed.result, Str("}")),
         underflow |-> flushed.underflow,
         panic |-> flushed.panic]

----------------------------------------------------------------------------
\* The inputs of the calls

\* MIR bodies of at most maxBlocks blocks with at most maxStmts statements each
Bodies(maxBlocks, maxStmts) ==
    UNION {[1..n -> 0..maxStmts] : n \in 0..maxBlocks}

RECURSIVE PointsUpTo(_, _)
PointsUpTo(stmts, b) ==
    IF b = 0 THEN 0 ELSE PointsUpTo(stmts, b - 1) + stmts[b] + 1

\* MIR bodies with at most MaxPoints control-flow points
SmallBodies ==
    {stmts \in Bodies(MaxPoints, MaxPoints - 1) : PointsUpTo(stmts, Len(stmts)) <= MaxPoints}

\* locations inside the body, and some outside it: a statement index past the
\* terminator, a block past the last one
LocationInputs(maxBlock, maxStmt) ==
    {Location(b, s) : b \in 0..maxBlock, s \in 0..maxStmt}
RegionVidInputs == {RegionVid(v) : v \in 0..MaxUniversal}
IndexInputs == {RegionElementIndex(i) : i \in 0..(num_elements(elements) - 1)}

InBounds(l) ==
    /\ l.block < Len(mir)
    /\ l.statement_index <= mir[l.block + 1]

\* The columns of the matrix are the indices below num_elements: an element is
\* given to the store when its conversion aborts or yields one of them.  The
\* locations given are those of the body, the one past each terminator, and
\* the entry of the block past the last.
StoreInputs ==
    {e \in LocationInputs(Len(mir), MaxPoints) \cup RegionVidInputs :
        /\ e.tag = "Location" =>
              \/ e.block = Len(mir) /\ e.statement_index = 0
              \/ e.block < Len(mir) /\ e.statement_index <= mir[e.block + 1] + 1
        /\ index(elements, e).tag = "Panic"
              \/ index(elements, e).i < num_elements(elements)}

Rows == 0..(num_region_variables - 1)

RECURSIVE TotalBits(_, _)
TotalBits(m, n) == IF n = 0 THEN 0 ELSE Cardinality(m[n - 1]) + TotalBits(m, n - 1)

----------------------------------------------------------------------------
\* The state after RegionValueElements::new and RegionValues::new, whose
\* assertion num_universal_regions <= num_region_variables held

Constructed(stmts, nur, n) ==
    /\ nur <= n
    /\ mir = stmts
    /\ elements = New(stmts, nur)
    /\ num_region_variables = n
    /\ matrix = MatrixNew(n)
    /\ last = [op |-> "new"]
    /\ panicked = FALSE

Init ==
    \E stmts \in SmallBodies, nur \in 0..MaxUniversal, n \in 0..MaxRegionVars :
        Constructed(stmts, nur, n)

InitElements ==
    \E stmts \in Bodies(MaxBlocks, MaxStmts), nur \in 0..MaxUniversal :
        Constructed(stmts, nur, nur)

----------------------------------------------------------------------------
\* The calls on RegionValues

AddElement(r, elem) ==
    /\ ~panicked
    /\ TotalBits(matrix, num_region_variables) < MaxBits
    /\ LET o == add_element(elements, matrix, r, elem)
       IN  /\ matrix' = o.m
           /\ panicked' = o.panic
           /\ last' = [op |-> "add_element", r |-> r, elem |-> elem, ret |-> o.ret]
    /\ UNCHANGED <<mir, elements, num_region_variables>>

AddRegion(r_to, r_from) ==
    /\ ~panicked
    /\ TotalBits(matrix, num_region_variables) < MaxBits
    /\ LET o == add_region(matrix, r_to, r_from)
       IN  /\ matrix' = o.m
           /\ panicked' = o.panic
           /\ last' = [op |-> "add_region", r_to |-> r_to, r_from |-> r_from,
                       ret |-> o.ret]
    /\ UNCHANGED <<mir, elements, num_region_variables>>

Contains(r, elem) ==
    /\ ~panicked
    /\ LET o == contains(elements, matrix, r, elem)
       IN  /\ panicked' = o.panic
           /\ last' = [op |-> "contains", r |-> r, elem |-> elem, ret |-> o.ret]
    /\ UNCHANGED <<mir, elements, num_region_variables, matrix>>

ContainsPoints(sup_region, sub_region) ==
    /\ ~panicked
    /\ last' = [op |-> "contains_points", sup |-> sup_region, sub |-> sub_region,
                ret |-> contains_points(elements, matrix, sup_region, sub_region)]
    /\ UNCHANGED <<mir, elements, num_region_variables, matrix, panicked>>

UniversalRegionsOutlivedBy(r) ==
    /\ ~panicked
    /\ last' = [op |-> "universal_regions_outlived_by", r |-> r,
                ret |-> universal_regions_outlived_by(elements, matrix, r)]
    /\ UNCHANGED <<mir, elements, num_region_variables, matrix, panicked>>

ElementsContainedIn(r) ==
    /\ ~panicked
    /\ last' = [op |-> "elements_contained_in", r |-> r,
                ret |-> elements_contained_in(elements, matrix, r)]
    /\ UNCHANGED <<mir, elements, num_region_variables, matrix, panicked>>

RegionValueStr(r) ==
    /\ ~panicked
    /\ LET o == region_value_str(elements, matrix, r)
       IN  /\ panicked' = o.panic
           /\ last' = [op |-> "region_value_str", r |-> r, ret |-> o.result,
                       underflow |-> o.underflow]
    /\ UNCHANGED <<mir, elements, num_region_variables, matrix>>

\* The calls on RegionValueElements

NumElements ==
    /\ ~panicked
    /\ last' = [op |-> "num_elements", ret |-> num_elements(elements)]
    /\ UNCHANGED <<mir, elements, num_region_variables, matrix, panicked>>

ToElement(i) ==
    /\ ~panicked
    /\ LET e == to_element(elements, i)
       IN  /\ panicked' = (e.tag = "Panic")
           /\ last' = [op |-> "to_element", i |-> i, ret |-> e]
    /\ UNCHANGED <<mir, elements, num_region_variables, matrix>>

IndexOf(elem) ==
    /\ ~panicked
    /\ LET i == index(elements, elem)
       IN  /\ panicked' = (i.tag = "Panic")
           /\ last' = [op |-> "index", elem |-> elem, ret |-> i]
    /\ UNCHANGED <<mir, elements, num_region_variables, matrix>>

Next ==
    \/ \E r \in Rows, elem \in StoreInputs : AddElement(r, elem)
    \/ \E r_to \in Rows, r_from \in Rows : AddRegion(r_to, r_from)
    \/ \E r \in Rows, elem \in StoreInputs : Contains(r, elem)
    \/ \E sup_region \in Rows, sub_region \in Rows : ContainsPoints(sup_region, sub_region)
    \/ \E r \in Rows : UniversalRegionsOutlivedBy(r)
    \/ \E r \in Rows : ElementsContainedIn(r)
    \/ \E r \in Rows : RegionValueStr(r)

Spec == Init /\ [][Next]_vars

NextElements ==
    \/ NumElements
    \/ \E i \in 0..(num_elements(elements) - 1) : ToElement(i)
    \/ \E elem \in LocationInputs(MaxBlocks, MaxStmts + 1) \cup RegionVidInputs
                    \cup IndexInputs : IndexOf(elem)

SpecElements == InitElements /\ [][NextElements]_vars

----------------------------------------------------------------------------
\* What the properties are stated with: the body itself (mir), not the tables
\* built from it.

\* the set S of numbers in increasing order
Sorted(S) ==
    [k \in 1..Cardinality(S) |-> CHOOSE x \in S : Cardinality({y \in S : y < x}) = k - 1]

\* the locations of the body, and the element index the layout gives each
BodyLocations ==
    UNION {{Location(b - 1, s) : s \in 0..mir[b]} : b \in 1..Len(mir)}
LayoutIndex(l) ==
    elements.num_universal_regions + PointsUpTo(mir, l.block) + l.statement_index
PointAt(i) == CHOOSE l \in BodyLocations : LayoutIndex(l) = i

IsUniversal(i) == i < elements.num_universal_regions
IsPoint(i) ==
    /\ i >= elements.num_universal_regions
    /\ i < elements.num_universal_regions + PointsUpTo(mir, Len(mir))

\* i and j are points of one block
SameBlock(i, j) == IsPoint(i) /\ IsPoint(j) /\ PointAt(i).block = PointAt(j).block

----------------------------------------------------------------------------
\* the value index(...) takes for an element: a universal region is given as
\* its RegionVid
AsInput(e) == IF e.tag = "UniversalRegion" THEN RegionVid(e.vid) ELSE e

\* C1: for every index i below num_elements, to_element(i) is a universal
\* region or a location of the body (its statement index at most the block's
\* statement count), and index(...) of that element is i again.
C1_RoundTrip ==
    last.op = "to_element" =>
        /\ last.ret.tag \in {"UniversalRegion", "Location"}
        /\ last.ret.tag = "Location" => InBounds(last.ret)
        /\ index(elements, AsInput(last.ret)) = RegionElementIndex(last.i)

C1_Witness ==
    /\ mir = <<2, 0, 3>>
    /\ elements.num_universal_regions = 2
    /\ last.op = "to_element"
    /\ last.i = 9
    /\ last.ret = Location(2, 3)

\* statements_before_block and num_points are the running sums of
\* (statement count + 1), and num_elements() adds num_universal_regions
PrefixSums ==
    /\ Len(elements.statements_before_block) = Len(mir)
    /\ \A b \in 1..Len(mir) :
          elements.statements_before_block[b] = PointsUpTo(mir, b - 1)
    /\ elements.num_points = PointsUpTo(mir, Len(mir))
    /\ last.op = "num_elements" =>
          last.ret = elements.num_universal_regions + PointsUpTo(mir, Len(mir))

\* C7 (as stated): RegionValueElements::new makes statements_before_block[b]
\* the sum of (statement count + 1) over the blocks before b and num_points that
\* sum over all blocks, num_elements() is num_universal_regions + num_points,
\* and blocks of 2, 0 and 3 statements give [0, 3, 4] and num_points = 10.
C7_AsStated ==
    /\ PrefixSums
    /\ mir = <<2, 0, 3>> =>
          /\ elements.statements_before_block = <<0, 3, 4>>
          /\ elements.num_points = 10

\* C7 (amended): the same sums, and blocks of 2, 0 and 3 statements give
\* statements_before_block = [0, 3, 4] and num_points = 3 + 1 + 4 = 8.
C7_Construction ==
    /\ PrefixSums
    /\ mir = <<2, 0, 3>> =>
          /\ elements.statements_before_block = <<0, 3, 4>>
          /\ elements.num_points = 8

C7_Witness ==
    /\ mir = <<2, 0, 3>>
    /\ elements.statements_before_block = <<0, 3, 4>>
    /\ elements.num_points = 8
    /\ elements.num_universal_regions = 1
    /\ last.op = "num_elements"
    /\ last.ret = 9

----------------------------------------------------------------------------
\* C2: no call removes an element from any row: every row before a step is a
\* subset of the same row after it.
C2_RowsOnlyGrow ==
    [][\A r \in Rows : matrix[r] \subseteq matrix'[r]]_vars

\* add_region changed r_to, which keeps elements that r_from does not have
C2_Witness ==
    /\ last.op = "add_region"
    /\ last.ret
    /\ matrix[last.r_from] # {}
    /\ ~(matrix[last.r_to] \subseteq matrix[last.r_from])

\* C3: add_element(r, e) returns true iff e was not in row r, add_region(r_to,
\* r_from) returns true iff row r_to gained an element; a call that returns
\* false leaves the matrix as it was, and add_region(r, r) returns false.
C3_ReturnsChanged ==
    [][/\ (last'.op = "add_element" /\ ~panicked') =>
            /\ last'.ret = (index(elements, last'.elem).i \notin matrix[last'.r])
            /\ last'.ret = (matrix'[last'.r] # matrix[last'.r])
            /\ ~last'.ret => matrix' = matrix
       /\ last'.op = "add_region" =>
            /\ last'.ret = (\E e \in matrix'[last'.r_to] : e \notin matrix[last'.r_to])
            /\ ~last'.ret => matrix' = matrix
            /\ last'.r_to = last'.r_from => ~last'.ret]_vars

\* an element already in a row of two elements was added again
C3_Witness ==
    /\ last.op = "add_element"
    /\ ~panicked
    /\ ~last.ret
    /\ Cardinality(matrix[last.r]) >= 2

\* C4: contains_points(sup, sub) is true iff every control-flow point of row
\* sub is in row sup; the universal regions of sub do not count.
C4_ContainsPoints ==
    last.op = "contains_points" =>
        last.ret = (\A i \in matrix[last.sub] : IsPoint(i) => i \in matrix[last.sup])

\* true although sub holds a universal region that sup lacks, besides a point
C4_Witness ==
    /\ last.op = "contains_points"
    /\ last.ret
    /\ \E i \in matrix[last.sub] : IsUniversal(i) /\ i \notin matrix[last.sup]
    /\ \E i \in matrix[last.sub] : IsPoint(i)

\* C5: universal_regions_outlived_by(r) yields exactly the indices of row r
\* below num_universal_regions, each once, in increasing order.
C5_UniversalPrefix ==
    last.op = "universal_regions_outlived_by" =>
        last.ret = Sorted({i \in matrix[last.r] : IsUniversal(i)})

C5_Witness ==
    /\ last.op = "universal_regions_outlived_by"
    /\ Len(last.ret) = 2
    /\ \E i \in matrix[last.r] : IsPoint(i)

LocationBefore(l1, l2) ==
    \/ l1.block < l2.block
    \/ l1.block = l2.block /\ l1.statement_index < l2.statement_index

\* C8: elements_contained_in(r) lists every universal region before every
\* control-flow point, and the points in increasing (block, statement index)
\* order.
C8_ElementOrder ==
    last.op = "elements_contained_in" =>
        /\ \A k \in 1..Len(last.ret) : last.ret[k].tag \in {"UniversalRegion", "Location"}
        /\ \A j \in 1..Len(last.ret), k \in 1..Len(last.ret) :
              j < k =>
                 /\ last.ret[k].tag = "UniversalRegion" => last.ret[j].tag = "UniversalRegion"
                 /\ (last.ret[j].tag = "Location" /\ last.ret[k].tag = "Location") =>
                        LocationBefore(last.ret[j], last.ret[k])

C8_Witness ==
    /\ last.op = "elements_contained_in"
    /\ Len(last.ret) = 3
    /\ last.ret[1].tag = "UniversalRegion"
    /\ last.ret[2].tag = "Location"
    /\ last.ret[3].tag = "Location"
    /\ last.ret[2].block # last.ret[3].block

----------------------------------------------------------------------------
\* The expected rendering of a row: an item starts at every universal region
\* and at every point that does not continue a run of its block.
StartsItem(row, i) ==
    IsUniversal(i) \/ ~(i - 1 \in row /\ SameBlock(i - 1, i))

RunEnd(row, i) ==
    CHOOSE j \in row :
        /\ j >= i
        /\ \A k \in i..j : k \in row /\ SameBlock(i, k)
        /\ ~(j + 1 \in row /\ SameBlock(i, j + 1))

Item(row, i) ==
    IF IsUniversal(i) THEN DebugRegionVid(i)
    ELSE IF RunEnd(row, i) = i THEN DebugLocation(PointAt(i))
    ELSE DebugRange(PointAt(i).block, PointAt(i).statement_index,
                    PointAt(RunEnd(row, i)).statement_index)

RECURSIVE Separated(_, _)
Separated(items, k) ==
    IF k > Len(items) THEN <<>>
    ELSE (IF k = 1 THEN <<>> ELSE <<Str(", ")>>) \o <<items[k]>> \o Separated(items, k + 1)

Rendering(row) ==
    LET starts == Sorted({i \in row : StartsItem(row, i)})
    IN  <<Str("{")>> \o Separated([k \in 1..Len(starts) |-> Item(row, starts[k])], 1)
            \o <<Str("}")>>

\* C6: region_value_str(r) is "{", the items separated by ", ", and "}": the
\* universal regions of the row in increasing order, then one item for every
\* maximal run of points with consecutive statement indices in one block, a
\* range Block[first..=final] for a run of two or more and the bare location
\* for a single point.
C6_Rendering ==
    last.op = "region_value_str" =>
        /\ ~panicked
        /\ last.ret = Rendering(matrix[last.r])

\* {U1, B0@0, B0@1} renders as {U1, B0[0..=1]}
C6_Witness ==
    /\ last.op = "region_value_str"
    /\ ~panicked
    /\ last.ret = <<Str("{"), DebugRegionVid(1), Str(", "), DebugRange(0, 0, 1), Str("}")>>

\* C10: region_value_str never evaluates `l.statement_index - 1` at
\* l.statement_index = 0 and never aborts.
C10_NoUnderflow ==
    last.op = "region_value_str" => ~last.underflow /\ ~panicked

\* the row holds the terminator of one block and statement 0 of the next
C10_Witness ==
    /\ last.op = "region_value_str"
    /\ ~panicked
    /\ \E i \in matrix[last.r] :
          /\ i + 1 \in matrix[last.r]
          /\ IsPoint(i) /\ IsPoint(i + 1)
          /\ PointAt(i).block # PointAt(i + 1).block

----------------------------------------------------------------------------
\* C9: a location outside the body (its block not in the body, or its statement
\* index greater than the block's statement count) makes index, add_element
\* and contains abort: none of them returns a value for it.
C9_OutOfBoundsAborts ==
    (/\ last.op \in {"index", "add_element", "contains"}
     /\ last.elem.tag = "Location"
     /\ ~InBounds(last.elem))
        => panicked

====
